---- MODULE Spec2Model ----
(***************************************************************************)
(* LabelSpy demo: extraction of E-codes from an ingredient text            *)
(* (extract_codes) and their classification against the knowledge base     *)
(* (the /analyze handler), src/labelspy_demo/main.py.                      *)
(*                                                                         *)
(* A text is a sequence of Unicode code points (Python str).  The module   *)
(* is ASCII: Cyrillic phrases are written as code points, with a Latin     *)
(* transliteration in the comment beside them.                             *)
(***************************************************************************)
EXTENDS Integers, Sequences, FiniteSets, TLC

VARIABLES SYNONYMS, E_CODE_DB, pc, request, response, invoked, earlier

vars == <<SYNONYMS, E_CODE_DB, pc, request, response, invoked, earlier>>

----------------------------------------------------------------------------
(* Bounds of the model *)

\* a request text is a concatenation of at most MaxWords words of Words
MaxWords == 3
\* an extraction text is a concatenation of at most MaxParts parts of Parts
MaxParts == 3

----------------------------------------------------------------------------
(* Characters *)

\* the letter the pattern of main.py:85 starts with
LatinSmallE == 101
\* the 'E' of the f-string of main.py:88
LatinCapitalE == 69
\* the hyphen of the pattern of main.py:85
Hyphen == 45
\* length of the digit run, \d{3}, main.py:85 and main.py:86
CodeDigits == 3

\* lower-casing of the ASCII letters only
LowerCharAscii(c) == IF c \in 65..90 THEN c + 32 ELSE c

\* str.lower() on one code point: ASCII A-Z, Cyrillic U+0410-U+042F (+32) and
\* U+0400-U+040F (+80); every other code point of the model's texts has no
\* lower-case mapping
LowerChar(c) ==
    IF c \in 65..90 THEN c + 32
    ELSE IF c \in 1040..1071 THEN c + 32
    ELSE IF c \in 1024..1039 THEN c + 80
    ELSE c

\* what \s matches in a str pattern (and what str.strip() removes): Unicode
\* white space
IsSpace(c) ==
    c \in (9..13) \cup (28..32) \cup {133, 160, 5760, 8232, 8233, 8239, 8287, 12288}
          \cup (8192..8202)

\* what \d matches in a str pattern: a Unicode decimal digit (category Nd);
\* the ASCII digits and the Arabic-Indic blocks are the ones written out
IsDigit(c) == c \in (48..57) \cup (1632..1641) \cup (1776..1785)

----------------------------------------------------------------------------
(* The synonym table, main.py:52-64 *)

SynonymTable ==
    { \* askorbinovaya kislota -> E300
      [syn |-> <<1072, 1089, 1082, 1086, 1088, 1073, 1080, 1085, 1086, 1074,
                 1072, 1103, 32, 1082, 1080, 1089, 1083, 1086, 1090, 1072>>,
       code |-> <<69, 51, 48, 48>>],
      \* l-askorbat -> E300
      [syn |-> <<108, 45, 1072, 1089, 1082, 1086, 1088, 1073, 1072, 1090>>,
       code |-> <<69, 51, 48, 48>>],
      \* glutamat natriya -> E621
      [syn |-> <<1075, 1083, 1091, 1090, 1072, 1084, 1072, 1090, 32, 1085,
                 1072, 1090, 1088, 1080, 1103>>,
       code |-> <<69, 54, 50, 49>>],
      \* glutamat mononatriya -> E621
      [syn |-> <<1075, 1083, 1091, 1090, 1072, 1084, 1072, 1090, 32, 1084,
                 1086, 1085, 1086, 1085, 1072, 1090, 1088, 1080, 1103>>,
       code |-> <<69, 54, 50, 49>>],
      \* monoglutamat natriya -> E621
      [syn |-> <<1084, 1086, 1085, 1086, 1075, 1083, 1091, 1090, 1072, 1084,
                 1072, 1090, 32, 1085, 1072, 1090, 1088, 1080, 1103>>,
       code |-> <<69, 54, 50, 49>>],
      \* "as" in Cyrillic followed by Latin "partame" -> E951
      [syn |-> <<1072, 1089, 112, 97, 114, 116, 97, 109, 101>>,
       code |-> <<69, 57, 53, 49>>],
      \* aspartam -> E951
      [syn |-> <<1072, 1089, 1087, 1072, 1088, 1090, 1072, 1084>>,
       code |-> <<69, 57, 53, 49>>],
      \* nitrit natriya -> E250
      [syn |-> <<1085, 1080, 1090, 1088, 1080, 1090, 32, 1085, 1072, 1090,
                 1088, 1080, 1103>>,
       code |-> <<69, 50, 53, 48>>],
      \* sorbinovaya kislota -> E200
      [syn |-> <<1089, 1086, 1088, 1073, 1080, 1085, 1086, 1074, 1072, 1103,
                 32, 1082, 1080, 1089, 1083, 1086, 1090, 1072>>,
       code |-> <<69, 50, 48, 48>>],
      \* kurkumin -> E100
      [syn |-> <<1082, 1091, 1088, 1082, 1091, 1084, 1080, 1085>>,
       code |-> <<69, 49, 48, 48>>],
      \* limonnaya kislota -> E330
      [syn |-> <<1083, 1080, 1084, 1086, 1085, 1085, 1072, 1103, 32, 1082,
                 1080, 1089, 1083, 1086, 1090, 1072>>,
       code |-> <<69, 51, 51, 48>>] }

----------------------------------------------------------------------------
(* extract_codes, main.py:67-90 *)

\* text.lower(), main.py:77
RECURSIVE lower(_)
lower(text) ==
    IF text = <<>> THEN <<>> ELSE <<LowerChar(Head(text))>> \o lower(Tail(text))

\* the synonym pass searching the text as given
SynonymHaystackAsGiven(text) == text

\* the text the synonym pass searches, main.py:77 and main.py:81
SynonymHaystack(text) == lower(text)

\* `needle in hay` (main.py:81), searched from position i on
RECURSIVE ContainsFrom(_, _, _)
ContainsFrom(hay, needle, i) ==
    IF i + Len(needle) - 1 > Len(hay) THEN FALSE
    ELSE IF SubSeq(hay, i, i + Len(needle) - 1) = needle THEN TRUE
    ELSE ContainsFrom(hay, needle, i + 1)

Contains(hay, needle) == ContainsFrom(hay, needle, 1)

\* the synonym pass, main.py:80-82
SynonymPass(text) ==
    LET lower_text == SynonymHaystack(text)
    IN  { s.code : s \in { e \in SYNONYMS : Contains(lower_text, e.syn) } }

\* \s* taken greedily from position i: the first position from i on that
\* holds no white space (Len(t) + 1 when the white space runs to the end)
RECURSIVE SkipSpaces(_, _)
SkipSpaces(t, i) ==
    IF i <= Len(t) /\ IsSpace(t[i]) THEN SkipSpaces(t, i + 1) ELSE i

\* the position after an optional hyphen at i
SkipHyphen(t, i) == IF i <= Len(t) /\ t[i] = Hyphen THEN i + 1 ELSE i

\* \d{3} at position i
DigitsAt(t, i) ==
    /\ i + CodeDigits - 1 <= Len(t)
    /\ \A k \in 0..(CodeDigits - 1) : IsDigit(t[i + k])

\* the pattern without the white space after the hyphen, e\s*-?\d{3}
MatchEndNoSpaceAfterHyphen(t, i) ==
    IF i > Len(t) \/ t[i] # LatinSmallE THEN 0
    ELSE LET d == SkipHyphen(t, SkipSpaces(t, i + 1))
         IN  IF DigitsAt(t, d) THEN d + CodeDigits - 1 ELSE 0

\* The pattern e\s*-?\s*\d{3} of main.py:85 tried at position i: the position
\* of the last character of the match, 0 when there is none.  White space,
\* the hyphen and the digits are disjoint classes, so giving back part of a
\* greedy \s* or the optional hyphen never turns a failure into a match:
\* the greedy attempt decides.
MatchEnd(t, i) ==
    IF i > Len(t) \/ t[i] # LatinSmallE THEN 0
    ELSE LET d == SkipSpaces(t, SkipHyphen(t, SkipSpaces(t, i + 1)))
         IN  IF DigitsAt(t, d) THEN d + CodeDigits - 1 ELSE 0

\* re.findall(pattern, t) from position i on: the matches, left to right,
\* the scan resuming after the end of each match
RECURSIVE FindAllFrom(_, _)
FindAllFrom(t, i) ==
    IF i > Len(t) THEN <<>>
    ELSE LET e == MatchEnd(t, i)
         IN  IF e = 0 THEN FindAllFrom(t, i + 1)
             ELSE <<SubSeq(t, i, e)>> \o FindAllFrom(t, e + 1)

findall(t) == FindAllFrom(t, 1)

\* re.search(r"\d{3}", match).group(), main.py:86: the leftmost run of three
\* digits of the match
RECURSIVE SearchDigitsFrom(_, _)
SearchDigitsFrom(m, i) ==
    IF i + CodeDigits - 1 > Len(m) THEN <<>>
    ELSE IF DigitsAt(m, i) THEN SubSeq(m, i, i + CodeDigits - 1)
    ELSE SearchDigitsFrom(m, i + 1)

\* f"E{digits.group()}", main.py:86-88
CodeOfMatch(m) == <<LatinCapitalE>> \o SearchDigitsFrom(m, 1)

\* the explicit pass, main.py:85-88
ExplicitPass(text) ==
    LET ms == findall(lower(text))
    IN  { CodeOfMatch(ms[k]) : k \in { j \in 1..Len(ms) : SearchDigitsFrom(ms[j], 1) # <<>> } }

\* str < str: by code point, a proper prefix first
RECURSIVE LexLess(_, _)
LexLess(a, b) ==
    IF Len(b) = 0 THEN FALSE
    ELSE IF Len(a) = 0 THEN TRUE
    ELSE IF a[1] # b[1] THEN a[1] < b[1]
    ELSE LexLess(Tail(a), Tail(b))

\* sorted(found, reverse=True)
RECURSIVE sorted_reversed(_)
sorted_reversed(S) ==
    IF S = {} THEN <<>>
    ELSE LET m == CHOOSE x \in S : \A y \in S \ {x} : LexLess(y, x)
         IN  <<m>> \o sorted_reversed(S \ {m})

\* sorted(found), main.py:90
RECURSIVE sorted(_)
sorted(S) ==
    IF S = {} THEN <<>>
    ELSE LET m == CHOOSE x \in S : \A y \in S \ {x} : LexLess(x, y)
         IN  <<m>> \o sorted(S \ {m})

extract_codes(text) == sorted(SynonymPass(text) \cup ExplicitPass(text))

----------------------------------------------------------------------------
(* The /analyze handler, main.py:104-161 *)

\* str.upper() on one code point, the inverse ranges of LowerChar
UpperChar(c) ==
    IF c \in 97..122 THEN c - 32
    ELSE IF c \in 1072..1103 THEN c - 32
    ELSE IF c \in 1104..1119 THEN c - 80
    ELSE c

\* code.upper(), main.py:131
RECURSIVE upper(_)
upper(text) ==
    IF text = <<>> THEN <<>> ELSE <<UpperChar(Head(text))>> \o upper(Tail(text))

\* str.strip(), main.py:114: leading and trailing white space removed
RECURSIVE lstrip(_)
lstrip(t) == IF Len(t) > 0 /\ IsSpace(t[1]) THEN lstrip(Tail(t)) ELSE t

RECURSIVE rstrip(_)
rstrip(t) ==
    IF Len(t) > 0 /\ IsSpace(t[Len(t)]) THEN rstrip(SubSeq(t, 1, Len(t) - 1)) ELSE t

strip(t) == rstrip(lstrip(t))

\* the query parameter taken as it comes
Untrimmed(text) == text

\* what the handler does with the query parameter before anything else,
\* main.py:114
Trimmed(text) == strip(text)

\* "Ne naydeno izvestnykh dobavok." (no known additives found),
\* main.py:121 and main.py:149
NoneFoundMessage == "Ne naydeno izvestnykh dobavok."
\* "Neizvestnyy kod" (unknown code), main.py:136
UnknownDescription == "Neizvestnyy kod"
\* "Naydeno " (found), main.py:151
FoundPrefix == "Naydeno "
\* the labels of main.py:143, 145 and 147: "opasnykh dobavok" (dangerous
\* additives), "umerenno opasnykh" (moderately dangerous), "bezopasnykh" (safe)
RedLabel == "opasnykh dobavok"
YellowLabel == "umerenno opasnykh"
GreenLabel == "bezopasnykh"

\* counts as created at main.py:128 (and main.py:122)
ZeroCounts == [c \in {"green", "yellow", "red", "unknown"} |-> 0]

\* counts kept in a dictionary that outlives the request
LeftoverCounts ==
    IF pc = "returned" /\ request.op = "analyze" THEN response.counts ELSE ZeroCounts

\* the counts a request starts from, main.py:128: a fresh local dictionary
InitialCounts == ZeroCounts

\* record.get("category", "unknown"), main.py:133
CategoryOf(record) ==
    IF "category" \in DOMAIN record THEN record["category"] ELSE "unknown"

\* the placeholder of main.py:136
Placeholder ==
    [name |-> "", description |-> UnknownDescription, category |-> "unknown"]

\* E_CODE_DB.get(code.upper()) followed by `if record:` (main.py:131-132):
\* TRUE when the code has a non-empty record
HasRecord(code) ==
    /\ upper(code) \in DOMAIN E_CODE_DB
    /\ DOMAIN E_CODE_DB[upper(code)] # {}

\* main.py:131-136: the category and the record of one code
Resolve(code) ==
    IF HasRecord(code)
    THEN [category |-> CategoryOf(E_CODE_DB[upper(code)]),
          record   |-> E_CODE_DB[upper(code)]]
    ELSE [category |-> "unknown", record |-> Placeholder]

\* {"code": code, **record}, main.py:138: the record's keys win
Row(code, record) ==
    [k \in {"code"} \cup DOMAIN record |->
        IF k \in DOMAIN record THEN record[k] ELSE code]

\* counts[category] = 1
SetToOne(counts, category) ==
    [c \in DOMAIN counts \cup {category} |-> IF c = category THEN 1 ELSE counts[c]]

\* counts[category] = counts.get(category, 0) + 1, main.py:137
Increment(counts, category) ==
    [c \in DOMAIN counts \cup {category} |->
        IF c = category
        THEN (IF c \in DOMAIN counts THEN counts[c] ELSE 0) + 1
        ELSE counts[c]]

\* the loop skipping the codes that have no record
RECURSIVE ClassifyKnown(_, _, _, _)
ClassifyKnown(codes, i, counts, results) ==
    IF i > Len(codes) THEN [counts |-> counts, results |-> results]
    ELSE IF ~HasRecord(codes[i]) THEN ClassifyKnown(codes, i + 1, counts, results)
    ELSE LET r == Resolve(codes[i])
         IN  ClassifyKnown(codes, i + 1,
                           Increment(counts, r.category),
                           Append(results, Row(codes[i], r.record)))

\* the loop of main.py:130-138 from the i-th code on
RECURSIVE Classify(_, _, _, _)
Classify(codes, i, counts, results) ==
    IF i > Len(codes) THEN [counts |-> counts, results |-> results]
    ELSE LET r == Resolve(codes[i])
         IN  Classify(codes, i + 1,
                      Increment(counts, r.category),
                      Append(results, Row(codes[i], r.record)))

\* the clauses in the order green, yellow, red
SummaryPartsGreenFirst(counts) ==
    (IF counts["green"] # 0
        THEN << [count |-> counts["green"], label |-> GreenLabel] >> ELSE <<>>)
    \o (IF counts["yellow"] # 0
        THEN << [count |-> counts["yellow"], label |-> YellowLabel] >> ELSE <<>>)
    \o (IF counts["red"] # 0
        THEN << [count |-> counts["red"], label |-> RedLabel] >> ELSE <<>>)

\* summary_parts, main.py:141-147: one clause f"{count} {label}" per non-zero
\* count, red first, then yellow, then green
SummaryParts(counts) ==
    (IF counts["red"] # 0
        THEN << [count |-> counts["red"], label |-> RedLabel] >> ELSE <<>>)
    \o (IF counts["yellow"] # 0
        THEN << [count |-> counts["yellow"], label |-> YellowLabel] >> ELSE <<>>)
    \o (IF counts["green"] # 0
        THEN << [count |-> counts["green"], label |-> GreenLabel] >> ELSE <<>>)

\* summary_message, main.py:148-151; ", ".join(parts) is kept as the
\* sequence of the clauses it joins
SummaryMessage(counts) ==
    LET parts == SummaryParts(counts)
    IN  IF parts = <<>>
        THEN [text |-> NoneFoundMessage, clauses |-> <<>>]
        ELSE [text |-> FoundPrefix, clauses |-> parts]

\* the template context of main.py:116-124
EmptyContext ==
    [template |-> "result.html",
     results  |-> <<>>,
     summary  |-> [text |-> NoneFoundMessage, clauses |-> <<>>],
     counts   |-> ZeroCounts]

\* the functions the handler calls and the context it renders,
\* main.py:114-161
analyze(ingredients) ==
    LET trimmed == Trimmed(ingredients)
    IN  IF trimmed = <<>>
        THEN [calls |-> <<"analyze">>, context |-> EmptyContext]
        ELSE LET codes == extract_codes(trimmed)
                 done  == Classify(codes, 1, InitialCounts, <<>>)
             IN  [calls   |-> <<"analyze", "extract_codes">>,
                  context |-> [template |-> "result.html",
                               results  |-> done.results,
                               summary  |-> SummaryMessage(done.counts),
                               counts   |-> done.counts]]

\* the template context of main.py:96-101
home == [template |-> "index.html"]

----------------------------------------------------------------------------
(* Inputs *)

\* the characters extraction texts are built from: e, E, the digits 1 and 2,
\* the Arabic-Indic digit three, space and hyphen
PartChars == {101, 69, 49, 50, 1635, 32, 45}

\* longer parts: "e10", "kurkumin" in lower case, "ASPARTAM" in upper case,
\* "L-Askorbat" in mixed case
PartPhrases ==
    { <<101, 49, 48>>,
      <<1082, 1091, 1088, 1082, 1091, 1084, 1080, 1085>>,
      <<1040, 1057, 1055, 1040, 1056, 1058, 1040, 1052>>,
      <<76, 45, 1040, 1089, 1082, 1086, 1088, 1073, 1072, 1090>> }

Parts == { <<c>> : c \in PartChars } \cup PartPhrases

\* the concatenations of at most n elements of P
RECURSIVE ConcatsUpTo(_, _)
ConcatsUpTo(P, n) ==
    IF n = 0 THEN { <<>> }
    ELSE LET shorter == ConcatsUpTo(P, n - 1)
         IN  shorter \cup { t \o p : t \in shorter, p \in P }

\* the separators between the letter and the digits: none, "-", " ", " - "
Separators == { <<>>, <<45>>, <<32>>, <<32, 45, 32>> }

AsciiDigits == 48..57

\* e or E, a separator, three ASCII digits
VariantTexts ==
    { <<e>> \o sep \o <<d1, d2, d3>> :
        e \in {LatinSmallE, LatinCapitalE}, sep \in Separators,
        d1 \in AsciiDigits, d2 \in AsciiDigits, d3 \in AsciiDigits }

\* the texts extract_codes is called with in SpecExtract
PartTexts == ConcatsUpTo(Parts, MaxParts)

\* the words request texts are built from: "kurkumin", "E102", "e-250" and
\* a space
Words ==
    { <<1082, 1091, 1088, 1082, 1091, 1084, 1080, 1085>>,
      <<69, 49, 48, 50>>,
      <<101, 45, 50, 53, 48>>,
      <<32>> }

\* the texts of the requests of Spec
RequestTexts == ConcatsUpTo(Words, MaxWords)

\* the codes a knowledge base of the model may hold: E100, E102, E250
KBCodes == { <<69, 49, 48, 48>>, <<69, 49, 48, 50>>, <<69, 50, 53, 48>> }

\* the records a knowledge base may hold for a code: one per category, and
\* one that lacks the category key
KBRecords ==
    { [name |-> "name", description |-> "description", category |-> c] :
        c \in {"green", "yellow", "red"} }
    \cup { [name |-> "name", description |-> "description"] }

\* every knowledge base over KBCodes
KnowledgeBases == UNION { [K -> KBRecords] : K \in SUBSET KBCodes }

\* the knowledge base the test of run_tests.py:39-51 implies: E102 yellow,
\* E250 red, E300 and E330 green
TestKB ==
    LET rec(c) == [name |-> "name", description |-> "description", category |-> c]
    IN  [k \in { <<69, 49, 48, 50>>, <<69, 50, 53, 48>>,
                 <<69, 51, 48, 48>>, <<69, 51, 51, 48>> } |->
            IF k = <<69, 49, 48, 50>> THEN rec("yellow")
            ELSE IF k = <<69, 50, 53, 48>> THEN rec("red")
            ELSE rec("green")]

----------------------------------------------------------------------------
(* The state machine: a caller calls a function or a handler with a text,   *)
(* it runs to completion (the handlers are coroutines without an await, so  *)
(* the event loop runs each of them in one piece, also when requests are    *)
(* simultaneous), the caller holds the result, may make the same call once  *)
(* more, and drops the result.                                              *)

NoRequest == [op |-> "none", text |-> <<>>]
NoResponse == [none |-> TRUE]

Init ==
    /\ SYNONYMS = SynonymTable
    /\ E_CODE_DB \in KnowledgeBases
    /\ pc = "idle"
    /\ request = NoRequest
    /\ response = NoResponse
    /\ invoked = <<>>
    /\ earlier = NoResponse

InitExtract ==
    /\ SYNONYMS = SynonymTable
    /\ E_CODE_DB = TestKB
    /\ pc = "idle"
    /\ request = NoRequest
    /\ response = NoResponse
    /\ invoked = <<>>
    /\ earlier = NoResponse

\* what a call of op with text returns, and the functions it enters
Outcome(op, text) ==
    IF op = "extract_codes"
    THEN [calls |-> <<"extract_codes">>, value |-> [codes |-> extract_codes(text)]]
    ELSE IF op = "analyze"
    THEN LET out == analyze(text)
         IN  [calls |-> out.calls, value |-> out.context]
    ELSE [calls |-> <<"home">>, value |-> home]

\* the module's globals after a call of op with text: neither function
\* assigns to SYNONYMS or E_CODE_DB, or changes a record it got from them
\* (main.py:138 copies the record into a new dictionary)
SynonymsAfter(op, text) == SYNONYMS

KnowledgeBaseAfter(op, text) == E_CODE_DB

\* a caller calls op with text and gets the result
Perform(op, text) ==
    /\ pc' = "returned"
    /\ request' = [op |-> op, text |-> text]
    /\ LET out == Outcome(op, text)
       IN  /\ response' = out.value
           /\ invoked' = out.calls
    /\ SYNONYMS' = SynonymsAfter(op, text)
    /\ E_CODE_DB' = KnowledgeBaseAfter(op, text)
    /\ UNCHANGED earlier

\* extract_codes(text), main.py:67-90, on a request text
ExtractCodes ==
    /\ pc = "idle"
    /\ \E text \in RequestTexts : Perform("extract_codes", text)

\* extract_codes(text) on a text built from parts
ExtractCodesOnParts ==
    /\ pc = "idle"
    /\ \E text \in PartTexts : Perform("extract_codes", text)

\* extract_codes(text) on the spelling variants of a code
ExtractCodesOnVariants ==
    /\ pc = "idle"
    /\ \E text \in VariantTexts : Perform("extract_codes", text)

\* GET /analyze?ingredients=text, main.py:104-161
Analyze ==
    /\ pc = "idle"
    /\ \E text \in RequestTexts : Perform("analyze", text)

\* GET /, main.py:93-101
Home ==
    /\ pc = "idle"
    /\ Perform("home", <<>>)

\* the caller keeps the result and makes the same call again
Again ==
    /\ pc = "returned"
    /\ earlier = NoResponse
    /\ earlier' = response
    /\ LET out == Outcome(request.op, request.text)
       IN  /\ response' = out.value
           /\ invoked' = out.calls
    /\ SYNONYMS' = SynonymsAfter(request.op, request.text)
    /\ E_CODE_DB' = KnowledgeBaseAfter(request.op, request.text)
    /\ UNCHANGED <<pc, request>>

\* the caller drops the result
Return ==
    /\ pc = "returned"
    /\ pc' = "idle"
    /\ request' = NoRequest
    /\ response' = NoResponse
    /\ invoked' = <<>>
    /\ earlier' = NoResponse
    /\ UNCHANGED <<SYNONYMS, E_CODE_DB>>

Next ==
    \/ Home
    \/ Analyze
    \/ ExtractCodes
    \/ Again
    \/ Return

NextExtract ==
    \/ ExtractCodesOnParts
    \/ Again
    \/ Return

NextVariants ==
    \/ ExtractCodesOnVariants
    \/ Again
    \/ Return

Spec == Init /\ [][Next]_vars

SpecExtract == InitExtract /\ [][NextExtract]_vars

SpecVariants == InitExtract /\ [][NextVariants]_vars

----------------------------------------------------------------------------
(* Properties of extract_codes *)

\* extract_codes has returned
ExtractReturned == pc = "returned" /\ request.op = "extract_codes"

\* the decimal digits (Unicode category Nd) among the model's characters
DecimalDigits == (48..57) \cup (1632..1641) \cup (1776..1785)

\* a canonical code: 4 characters, 'E' and three decimal digits
IsCanonicalCode(c) ==
    /\ Len(c) = 4
    /\ c[1] = 69
    /\ \A k \in 2..4 : c[k] \in DecimalDigits

\* a comes strictly before b in lexical order
LexicallyBefore(a, b) ==
    \/ Len(a) < Len(b) /\ \A k \in 1..Len(a) : a[k] = b[k]
    \/ \E k \in 1..Len(a) :
          /\ k <= Len(b)
          /\ a[k] < b[k]
          /\ \A j \in 1..(k - 1) : a[j] = b[j]

\* C1: whatever the text, extract_codes returns a sequence that is strictly
\* ascending in lexical order (so free of duplicates) and holds canonical
\* codes only
C1_AscendingCanonical ==
    ExtractReturned =>
        LET codes == response.codes
        IN  /\ \A i \in 1..Len(codes) : IsCanonicalCode(codes[i])
            /\ \A i \in 1..(Len(codes) - 1) : LexicallyBefore(codes[i], codes[i + 1])

\* extract_codes has returned two codes or more
C1_Witness == ExtractReturned /\ Len(response.codes) >= 2

\* phrase occurs in the lower-cased text
OccursLowerCased(phrase, text) ==
    \E i \in 0..(Len(text) - Len(phrase)) :
        \A k \in 1..Len(phrase) : LowerChar(text[i + k]) = phrase[k]

\* the codes of the synonyms whose phrase occurs in the lower-cased text
CodesOfSynonymsIn(text) ==
    { s.code : s \in { e \in SynonymTable : OccursLowerCased(e.syn, text) } }

\* positions i+1 .. j-1 of text hold white space and at most one hyphen
IsSeparator(text, i, j) ==
    /\ \A k \in (i + 1)..(j - 1) : IsSpace(text[k]) \/ text[k] = 45
    /\ Cardinality({ k \in (i + 1)..(j - 1) : text[k] = 45 }) <= 1

\* the letter e (in either case) at i, a separator, three digits from j on
IsExplicitCode(text, i, j) ==
    /\ i < j
    /\ j + 2 <= Len(text)
    /\ LowerChar(text[i]) = 101
    /\ IsSeparator(text, i, j)
    /\ \A k \in j..(j + 2) : text[k] \in DecimalDigits

\* 'E' and the digits of every occurrence of the explicit pattern
CodesOfExplicitIn(text) ==
    { <<69, text[p[2]], text[p[2] + 1], text[p[2] + 2]>> :
        p \in { q \in (1..Len(text)) \X (1..Len(text)) :
                    IsExplicitCode(text, q[1], q[2]) } }

\* C2: the set of the codes extract_codes returns is the union of the codes
\* of the synonyms whose phrase occurs in the lower-cased text and of
\* 'E'+ddd for every occurrence of the explicit pattern, and nothing else
C2_UnionOfPasses ==
    ExtractReturned =>
        { response.codes[i] : i \in 1..Len(response.codes) }
            = CodesOfSynonymsIn(request.text) \cup CodesOfExplicitIn(request.text)

\* extract_codes has returned a code of a synonym written in upper case and
\* another of an explicit pattern
C2_Witness ==
    /\ ExtractReturned
    /\ \E i \in 1..Len(request.text) : request.text[i] \in 1040..1071
    /\ \E c \in CodesOfSynonymsIn(request.text) :
          c \notin CodesOfExplicitIn(request.text)
    /\ \E c \in CodesOfExplicitIn(request.text) :
          c \notin CodesOfSynonymsIn(request.text)

\* the digit run that starts at j is exactly three digits long
RunOfExactlyThree(text, j) ==
    /\ j + 2 <= Len(text)
    /\ \A k \in j..(j + 2) : text[k] \in DecimalDigits
    /\ (j + 3 <= Len(text) => text[j + 3] \notin DecimalDigits)

\* C3: a candidate of the explicit pattern whose digit run is shorter or
\* longer than three digits contributes no code: every code returned comes
\* from a synonym or from a candidate whose digit run is exactly three
\* digits long
C3_OnlyRunsOfThree ==
    ExtractReturned =>
        \A n \in 1..Len(response.codes) :
            \/ response.codes[n] \in CodesOfSynonymsIn(request.text)
            \/ \E i, j \in 1..Len(request.text) :
                  /\ IsExplicitCode(request.text, i, j)
                  /\ RunOfExactlyThree(request.text, j)
                  /\ response.codes[n]
                        = <<69, request.text[j], request.text[j + 1], request.text[j + 2]>>

\* C4: 'e'+ddd, 'e-'+ddd, 'e '+ddd and 'e - '+ddd, the letter in either
\* case, all give exactly the one code 'E'+ddd
C4_SpellingVariants ==
    (ExtractReturned /\ request.text \in VariantTexts) =>
        LET n == Len(request.text)
        IN  response.codes
               = << <<69, request.text[n - 2], request.text[n - 1], request.text[n]>> >>

\* extract_codes has returned for "E - 102"
C4_Witness ==
    /\ ExtractReturned
    /\ request.text = <<69, 32, 45, 32, 49, 48, 50>>
    /\ response.codes = << <<69, 49, 48, 50>> >>

\* the character in the other letter case
OtherCase(c) ==
    IF c \in (65..90) \cup (1040..1071) THEN c + 32
    ELSE IF c \in (97..122) \cup (1072..1103) THEN c - 32
    ELSE c

\* text with the letter case of its i-th character changed
CaseChangedAt(text, i) == [text EXCEPT ![i] = OtherCase(text[i])]

\* text with the letter case of every character changed
CaseChanged(text) == [k \in 1..Len(text) |-> OtherCase(text[k])]

\* C5: changing the letter case of characters of the text does not change
\* what extract_codes returns
C5_CaseInsensitive ==
    ExtractReturned =>
        /\ \A i \in 1..Len(request.text) :
              extract_codes(CaseChangedAt(request.text, i)) = response.codes
        /\ extract_codes(CaseChanged(request.text)) = response.codes

\* extract_codes has found a synonym in a text with upper-case letters
C5_Witness ==
    /\ ExtractReturned
    /\ CodesOfSynonymsIn(request.text) # {}
    /\ \E i \in 1..Len(request.text) : request.text[i] \in 1040..1071

----------------------------------------------------------------------------
(* Properties of the /analyze handler *)

\* the /analyze handler has returned
AnalyzeReturned == pc = "returned" /\ request.op = "analyze"

\* the category a result row is shown under
RowCategory(row) ==
    IF "category" \in DOMAIN row THEN row["category"] ELSE "unknown"

\* the sum of f over the set S of its arguments
RECURSIVE SumOver(_, _)
SumOver(f, S) ==
    IF S = {} THEN 0
    ELSE LET x == CHOOSE y \in S : TRUE IN f[x] + SumOver(f, S \ {x})

\* C6: whatever the text and the knowledge base, every count is a natural
\* number, every count is the number of rows of its category (each row is
\* counted once, under one category), and the counts add up to the number of
\* rows, which is the number of codes in the text
C6_CountsMatchRows ==
    AnalyzeReturned =>
        LET counts  == response.counts
            results == response.results
        IN  /\ \A c \in DOMAIN counts : counts[c] \in Nat
            /\ \A i \in 1..Len(results) : RowCategory(results[i]) \in DOMAIN counts
            /\ \A c \in DOMAIN counts :
                  counts[c] = Cardinality({ i \in 1..Len(results) :
                                              RowCategory(results[i]) = c })
            /\ SumOver(counts, DOMAIN counts) = Len(results)
            /\ Len(results)
                  = Cardinality(CodesOfSynonymsIn(request.text)
                                   \cup CodesOfExplicitIn(request.text))

\* the handler has returned three rows, two of them of the same category
C6_Witness ==
    /\ AnalyzeReturned
    /\ Len(response.results) = 3
    /\ \E c \in DOMAIN response.counts : response.counts[c] = 2

\* the clause of a count and its label
Clause(n, label) == [count |-> n, label |-> label]

\* the place of a label in the order red, yellow, green
Rank(label) == IF label = RedLabel THEN 1 ELSE IF label = YellowLabel THEN 2 ELSE 3

\* C7: the summary has the clause '<count> <label>' of each of red, yellow
\* and green whose count is not zero, in this order, and no other clause
\* (none for a zero count, none for unknown); when the three counts are zero
\* it is the fixed message
C7_Summary ==
    AnalyzeReturned =>
        LET counts  == response.counts
            clauses == response.summary.clauses
            shown   == { c \in {"red", "yellow", "green"} : counts[c] # 0 }
            labelOf == [c \in {"red", "yellow", "green"} |->
                           IF c = "red" THEN RedLabel
                           ELSE IF c = "yellow" THEN YellowLabel ELSE GreenLabel]
        IN  /\ { clauses[i] : i \in 1..Len(clauses) }
                  = { Clause(counts[c], labelOf[c]) : c \in shown }
            /\ Len(clauses) = Cardinality(shown)
            /\ \A i, j \in 1..Len(clauses) :
                  i < j => Rank(clauses[i].label) < Rank(clauses[j].label)
            /\ (shown = {} <=> response.summary.text = NoneFoundMessage)
            /\ (shown # {} <=> response.summary.text = FoundPrefix)

\* the handler has returned a summary of three clauses
C7_Witness == AnalyzeReturned /\ Len(response.summary.clauses) = 3

\* C8: a code that the knowledge base does not hold is neither an error nor
\* dropped: there is one row per code of extract_codes, in its order, and
\* the row of a code the knowledge base lacks has the category unknown, an
\* empty name and the fixed description, and is counted under unknown
C8_UnknownRows ==
    AnalyzeReturned =>
        LET codes   == extract_codes(request.text)
            results == response.results
            lacking == { i \in 1..Len(codes) : codes[i] \notin DOMAIN E_CODE_DB }
        IN  /\ Len(results) = Len(codes)
            /\ \A i \in 1..Len(codes) : results[i]["code"] = codes[i]
            /\ \A i \in lacking :
                  results[i] = [code        |-> codes[i],
                                name        |-> "",
                                description |-> UnknownDescription,
                                category    |-> "unknown"]
            /\ response.counts["unknown"] >= Cardinality(lacking)

\* the handler has returned a row for a code the knowledge base lacks and
\* one for a code it holds
C8_Witness ==
    /\ AnalyzeReturned
    /\ \E i, j \in 1..Len(response.results) :
          /\ response.results[i]["code"] \notin DOMAIN E_CODE_DB
          /\ response.results[j]["code"] \in DOMAIN E_CODE_DB

\* text is empty or white space only
IsBlank(text) == \A i \in 1..Len(text) : IsSpace(text[i])

\* C9: for a text that is empty or white space only the handler returns no
\* row, zero for green, yellow, red and unknown, and the fixed message, and
\* does not enter extract_codes
C9_BlankInput ==
    (AnalyzeReturned /\ IsBlank(request.text)) =>
        /\ response.results = <<>>
        /\ response.counts = [c \in {"green", "yellow", "red", "unknown"} |-> 0]
        /\ response.summary.text = NoneFoundMessage
        /\ response.summary.clauses = <<>>
        /\ \A i \in 1..Len(invoked) : invoked[i] # "extract_codes"

\* the handler has returned for a text of three spaces
C9_Witness ==
    /\ AnalyzeReturned
    /\ request.text = <<32, 32, 32>>

====
